---- MODULE Spec2Model ----
(***************************************************************************)
(* Split the G: a model of src/js/app.js (camera capture, pixel-scan       *)
(* analysis of the glass, row-based score, feedback) and of the earlier    *)
(* revisions kept in src/unnamed: the ratio-based scorer, the back-rim /   *)
(* front-rim analysis (part_000), the darkness-threshold analyses          *)
(* (part_000, part_002) and the sliding-window analysis (part_001).        *)
(*                                                                         *)
(* Numbers.  JavaScript numbers are modelled as exact rationals kept in    *)
(* integers: a brightness (r+g+b)/3 is kept as the sum r+g+b, a per-row    *)
(* ratio count/width as the count, a window average as the window sum, and *)
(* every threshold is scaled on the other side of the comparison.  NaN     *)
(* (a read past the end of the buffer yields undefined) is the value NaN:  *)
(* every comparison with it is false, as in JavaScript.                    *)
(***************************************************************************)
EXTENDS Integers, Sequences, FiniteSets, TLC

(***************************************************************************)
(* Sizes.  app.js fixes the canvas at 640 x 480.  The model keeps the 480  *)
(* rows and analyses frames FrameWidth columns wide.                       *)
(***************************************************************************)
FrameWidth == 20
canvasHeight == 480
canvasWidth == FrameWidth

NaN == 0 - 1

Abs(n) == IF n < 0 THEN 0 - n ELSE n
Min2(a, b) == IF a < b THEN a ELSE b
Max2(a, b) == IF a > b THEN a ELSE b

(***************************************************************************)
(* The pixel buffer.  A frame is a record                                  *)
(*   [len, l, l2, m, m2, r, r2]                                            *)
(* len is the length of the byte array; l/l2 (m/m2, r/r2) are the column   *)
(* profiles of the even/odd columns of the left (middle, right) part of    *)
(* the picture.  A profile is a sequence of bands <<fromRow, colour>>,     *)
(* the first from row 0; a colour is <<r, g, b>>.                          *)
(***************************************************************************)
RECURSIVE bandColour(_, _, _)
bandColour(p, y, i) ==
    IF i = 1 \/ p[i][1] <= y THEN p[i][2] ELSE bandColour(p, y, i - 1)

profileAt(img, x, width) ==
    IF x < (width * 3) \div 10
    THEN (IF x % 2 = 0 THEN img.l ELSE img.l2)
    ELSE IF x >= (width * 7) \div 10
         THEN (IF x % 2 = 0 THEN img.r ELSE img.r2)
         ELSE (IF x % 2 = 0 THEN img.m ELSE img.m2)

\* imageData[idx], idx the index of a colour byte (channel c = idx % 4 < 3)
imageDataAt(img, width, idx) ==
    IF idx < 0 \/ idx >= img.len
    THEN NaN
    ELSE LET px == idx \div 4
             p  == profileAt(img, px % width, width)
         IN  bandColour(p, px \div width, Len(p))[(idx % 4) + 1]

\* imageData[idx] + imageData[idx + 1] + imageData[idx + 2]: 3 * brightness
brightness3(img, width, idx) ==
    IF idx < 0 \/ idx + 2 >= img.len
    THEN NaN
    ELSE LET px == idx \div 4
             p  == profileAt(img, px % width, width)
             c  == bandColour(p, px \div width, Len(p))
         IN  c[1] + c[2] + c[3]

(***************************************************************************)
(* analyzeBeerLevel, first pass: per-pixel edge tests.                     *)
(***************************************************************************)
\* (verticalEdge > 30 || brightnessDiff > 20) for the pixel (x, y)
isEdgePixel(img, width, x, y) ==
    LET b  == brightness3(img, width, (y * width + x) * 4)
        ba == brightness3(img, width, ((y - 1) * width + x) * 4)
        bb == brightness3(img, width, ((y + 1) * width + x) * 4)
    IN  /\ b # NaN /\ ba # NaN /\ bb # NaN
        /\ \/ Abs(b - ba) + Abs(b - bb) > 3 * 30
           \/ Abs(2 * b - (ba + bb)) > 6 * 20

\* colorDiff > 20 for the pixel (x, y): |brightnessAbove - brightnessBelow|
isTransitionPixel(img, width, x, y) ==
    LET ba == brightness3(img, width, ((y - 1) * width + x) * 4)
        bb == brightness3(img, width, ((y + 1) * width + x) * 4)
    IN  /\ ba # NaN /\ bb # NaN
        /\ Abs(ba - bb) > 3 * 20

\* Column ranges: the sampled middle band and the two rim regions.
\* guideWidth = 0.6 * width; startX = floor(0.2 w + 0.33 * 0.6 w), ...
startXOf(width) == (width * 398) \div 1000
endXOf(width) == (width * 596) \div 1000
leftRegionStartOf(width) == (width * 2) \div 10
leftRegionEndOf(width) == (width * 3) \div 10
rightRegionStartOf(width) == (width * 7) \div 10
rightRegionEndOf(width) == (width * 8) \div 10
\* Row range of the first pass
startYOf(height) == height \div 10
endYOf(height) == (height * 9) \div 10

\* the first pass running over every row of the picture
inFirstPassWholePicture(height, y) == 0 <= y /\ y < height

inFirstPass(height, y) == startYOf(height) + 1 <= y /\ y < endYOf(height) - 1

\* The per-row arrays hold the number of pixels counted; the ratio of the
\* code is this count over the width of the region.
leftEdgeIntensity(img, width, height, y) ==
    IF inFirstPass(height, y)
    THEN Cardinality({x \in leftRegionStartOf(width)..(leftRegionEndOf(width) - 1) :
                         isEdgePixel(img, width, x, y)})
    ELSE 0

rightEdgeIntensity(img, width, height, y) ==
    IF inFirstPass(height, y)
    THEN Cardinality({x \in rightRegionStartOf(width)..(rightRegionEndOf(width) - 1) :
                         isEdgePixel(img, width, x, y)})
    ELSE 0

edgeIntensityByRow(img, width, height, y) ==
    IF inFirstPass(height, y)
    THEN Cardinality({x \in startXOf(width)..(endXOf(width) - 1) :
                         isEdgePixel(img, width, x, y)})
    ELSE 0

liquidTransitionByRow(img, width, height, y) ==
    IF inFirstPass(height, y)
    THEN Cardinality({x \in startXOf(width)..(endXOf(width) - 1) :
                         isTransitionPixel(img, width, x, y)})
    ELSE 0

(***************************************************************************)
(* analyzeBeerLevel: rim detection (left and right region).                *)
(***************************************************************************)
\* the rows pushed to leftTopEdges / rightTopEdges: y from floor(0.1 h) while
\* y < topSearchLimit = 0.34 h, with intensity > minEdgeStrength = 0.15
topRows(height) ==
    {y \in startYOf(height)..(height - 1) : y * 100 < height * 34}

leftTopEdges(img, width, height) ==
    LET n == leftRegionEndOf(width) - leftRegionStartOf(width)
    IN  {e \in {[position |-> y, strength |-> leftEdgeIntensity(img, width, height, y)] :
                   y \in topRows(height)} : e.strength * 100 > 15 * n}

rightTopEdges(img, width, height) ==
    LET n == rightRegionEndOf(width) - rightRegionStartOf(width)
    IN  {e \in {[position |-> y, strength |-> rightEdgeIntensity(img, width, height, y)] :
                   y \in topRows(height)} : e.strength * 100 > 15 * n}

\* e comes before f after sort((a, b) => b.strength - a.strength): the sort is
\* stable and the edges were pushed by increasing position
sortsBefore(e, f) ==
    \/ e.strength > f.strength
    \/ e.strength = f.strength /\ e.position < f.position

\* strongEdges without slice(0, 3): every edge found
strongEdgesAll(edges) == edges

\* edges.sort(...).slice(0, 3)
strongEdges(edges) ==
    {e \in edges : Cardinality({f \in edges : sortsBefore(f, e)}) < 3}

MinOf(S) == CHOOSE m \in S : \A n \in S : m <= n

\* leftRimTop / rightRimTop: height * 0.1 unless an edge was found
rimTop(edges, height) ==
    IF edges = {}
    THEN height \div 10
    ELSE MinOf({e.position : e \in strongEdges(edges)})

(***************************************************************************)
(* analyzeBeerLevel: glass bottom, the first row of the largest edge       *)
(* intensity in [floor(0.6 h), floor(0.9 h)); height * 0.75 if none.       *)
(***************************************************************************)
\* bottomStep with >= for >: the last row of the largest intensity
bottomStepLast(img, width, height, y, st) ==
    LET e == edgeIntensityByRow(img, width, height, y)
    IN  IF e >= st[1] THEN <<e, y>> ELSE st

\* one iteration of the loop: st = <<maxEdgeStrength, glassBottom>>
bottomStep(img, width, height, y, st) ==
    LET e == edgeIntensityByRow(img, width, height, y)
    IN  IF e > st[1] THEN <<e, y>> ELSE st

\* the iterations for y = lo, lo + 1, ..., hi in this order
RECURSIVE bottomScan(_, _, _, _, _, _)
bottomScan(img, width, height, lo, hi, st) ==
    IF lo > hi
    THEN st
    ELSE IF lo = hi
         THEN bottomStep(img, width, height, lo, st)
         ELSE LET first == bottomScan(img, width, height, lo, (lo + hi) \div 2, st)
              IN  IF first = first    \* the first half is evaluated first
                  THEN bottomScan(img, width, height, ((lo + hi) \div 2) + 1, hi, first)
                  ELSE first

\* findGlassBottom searching from the middle of the picture
findGlassBottomFromMiddle(img, width, height) ==
    bottomScan(img, width, height, height \div 2, ((height * 9) \div 10) - 1,
               <<0, (height * 3) \div 4>>)[2]

findGlassBottom(img, width, height) ==
    bottomScan(img, width, height, (height * 6) \div 10, ((height * 9) \div 10) - 1,
               <<0, (height * 3) \div 4>>)[2]

(***************************************************************************)
(* analyzeBeerLevel: liquid level, scanning up from the bottom.            *)
(***************************************************************************)
windowSize == 5
minColorDiff == 30

\* a + b in JavaScript: NaN if either is NaN
Plus(a, b) == IF a = NaN \/ b = NaN THEN NaN ELSE a + b

\* sum of imageData[(y * width + x) * 4 + ch] over the columns x = from..endX-1
\* of the sampled band
RECURSIVE rowSum(_, _, _, _, _)
rowSum(img, width, y, ch, from) ==
    IF from >= endXOf(width)
    THEN 0
    ELSE Plus(imageDataAt(img, width, (y * width + from) * 4 + ch),
              rowSum(img, width, y, ch, from + 1))

\* the channel sums <<r, g, b>> of the rows lo..hi over the sampled band
bandSums(img, width, lo, hi) ==
    [y \in lo..hi |-> <<rowSum(img, width, y, 0, startXOf(width)),
                        rowSum(img, width, y, 1, startXOf(width)),
                        rowSum(img, width, y, 2, startXOf(width))>>]

\* sum of channel ch over a window (currentWindow for y0 = y, aboveWindow for
\* y0 = y - windowSize): the rows y0 + wy, wy = from..windowSize-1
RECURSIVE windowSum(_, _, _, _)
windowSum(sums, y0, ch, from) ==
    IF from >= windowSize
    THEN 0
    ELSE Plus(sums[y0 + from][ch + 1], windowSum(sums, y0, ch, from + 1))

\* colorDiff of row y, times 3 * n (n = currentWindow.length, 0 / 0 is NaN)
colorDiffOf(sums, n, y) ==
    LET cr == windowSum(sums, y, 0, 0)
        cg == windowSum(sums, y, 1, 0)
        cb == windowSum(sums, y, 2, 0)
        ar == windowSum(sums, y - windowSize, 0, 0)
        ag == windowSum(sums, y - windowSize, 1, 0)
        ab == windowSum(sums, y - windowSize, 2, 0)
    IN  IF \/ n = 0
           \/ cr = NaN \/ cg = NaN \/ cb = NaN
           \/ ar = NaN \/ ag = NaN \/ ab = NaN
        THEN NaN
        ELSE Abs((cr + cg + cb) - (ar + ag + ab))
             + 3 * (Abs(cr - ar) + Abs(cg - ag) + Abs(cb - ab))

\* isNewMaximum without the comparison with maxTransition: every significant
\* transition replaces the previous one
isNewMaximumAnyTransition(colorDiff, maxTransition, n) ==
    /\ colorDiff # NaN
    /\ colorDiff > 3 * n * minColorDiff

\* isNewMaximum with >= for >: among equal transitions the last one met
isNewMaximumOrEqual(colorDiff, maxTransition, n) ==
    /\ colorDiff # NaN
    /\ colorDiff > 3 * n * minColorDiff
    /\ colorDiff >= maxTransition

\* colorDiff > minColorDiff && colorDiff > maxTransition
isNewMaximum(colorDiff, maxTransition, n) ==
    /\ colorDiff # NaN
    /\ colorDiff > 3 * n * minColorDiff
    /\ colorDiff > maxTransition

\* one iteration of the loop: st = <<maxTransition, liquidLevel>>
liquidStep(sums, n, y, st) ==
    IF isNewMaximum(colorDiffOf(sums, n, y), st[1], n) THEN <<colorDiffOf(sums, n, y), y>> ELSE st

\* the iterations for y = hi, hi - 1, ..., lo in this order
RECURSIVE liquidScan(_, _, _, _, _)
liquidScan(sums, n, lo, hi, st) ==
    IF lo > hi
    THEN st
    ELSE IF lo = hi
         THEN liquidStep(sums, n, lo, st)
         ELSE LET first == liquidScan(sums, n, ((lo + hi) \div 2) + 1, hi, st)
              IN  IF first = first    \* the lower rows are evaluated first
                  THEN liquidScan(sums, n, lo, (lo + hi) \div 2, first)
                  ELSE first

\* findLiquidLevel with the loop running up to the top of the picture (the
\* rim forgotten in the loop condition)
findLiquidLevelIgnoringRim(img, width, glassTop, glassBottom) ==
    LET sums == bandSums(img, width, 1, glassBottom - 1)
        n    == (endXOf(width) - startXOf(width)) * windowSize
    IN  IF sums = sums
        THEN liquidScan(sums, n, windowSize + 1, glassBottom - windowSize,
                        <<0, glassBottom>>)[2]
        ELSE glassBottom

\* findLiquidLevel with the other fallback: liquidLevel starts three quarters
\* of the glass height above the base instead of at glassBottom
findLiquidLevelDefaultThreeQuarters(img, width, glassTop, glassBottom) ==
    LET sums == bandSums(img, width, glassTop + 1, glassBottom - 1)
        n    == (endXOf(width) - startXOf(width)) * windowSize
    IN  IF sums = sums
        THEN liquidScan(sums, n, glassTop + windowSize + 1, glassBottom - windowSize,
                        <<0, glassBottom - (3 * (glassBottom - glassTop)) \div 4>>)[2]
        ELSE glassBottom

\* for (y = glassBottom - windowSize; y > glassTop + windowSize; y--)
findLiquidLevel(img, width, glassTop, glassBottom) ==
    LET sums == bandSums(img, width, glassTop + 1, glassBottom - 1)
        n    == (endXOf(width) - startXOf(width)) * windowSize
    IN  IF sums = sums    \* the sums are evaluated once
        THEN liquidScan(sums, n, glassTop + windowSize + 1, glassBottom - windowSize,
                        <<0, glassBottom>>)[2]
        ELSE glassBottom

\* the rows y the loop visits
liquidCandidates(glassTop, glassBottom) ==
    (glassTop + windowSize + 1)..(glassBottom - windowSize)

\* colorDiff of every row the loop visits, times 3 * n
colorDiffByRow(img, width, glassTop, glassBottom) ==
    LET sums == bandSums(img, width, glassTop + 1, glassBottom - 1)
        n    == (endXOf(width) - startXOf(width)) * windowSize
    IN  IF sums = sums
        THEN [y \in liquidCandidates(glassTop, glassBottom) |-> colorDiffOf(sums, n, y)]
        ELSE <<>>

\* colorDiff > minColorDiff for a value of colorDiffByRow
aboveMinColorDiff(colorDiff, width) ==
    /\ colorDiff # NaN
    /\ colorDiff > 3 * (endXOf(width) - startXOf(width)) * windowSize * minColorDiff

\* debugData as returned: liquidTransitionByRow[y] from the first pass,
\* overwritten by colorDiff / 1000 on the rows of the liquid loop; each entry
\* is kept as the pair of its numerator and denominator
debugData(img, width, height, glassTop, glassBottom) ==
    LET diffs == colorDiffByRow(img, width, glassTop, glassBottom)
        sampleWidth == endXOf(width) - startXOf(width)
    IN  IF diffs = diffs
        THEN [y \in 0..(height - 1) |->
                 IF y \in DOMAIN diffs
                 THEN [num |-> diffs[y], den |-> 3 * sampleWidth * windowSize * 1000]
                 ELSE [num |-> liquidTransitionByRow(img, width, height, y),
                       den |-> sampleWidth]]
        ELSE <<>>

\* the rows whose entries the analysis writes: the four arrays and debugData
\* in the first pass, debugData in the liquid loop
rowsWritten(height, glassTop, glassBottom) ==
    {y \in 0..(height - 1) : inFirstPass(height, y)}
    \cup liquidCandidates(glassTop, glassBottom)

\* the rows of the pixels read: y - 1, y, y + 1 in the first pass; y + wy and
\* y - windowSize + wy in the liquid loop
rowsRead(height, glassTop, glassBottom) ==
    {y + d : y \in {z \in 0..(height - 1) : inFirstPass(height, z)}, d \in {0 - 1, 0, 1}}
    \cup {y + wy : y \in liquidCandidates(glassTop, glassBottom), wy \in 0..(windowSize - 1)}
    \cup {y - windowSize + wy : y \in liquidCandidates(glassTop, glassBottom),
                                wy \in 0..(windowSize - 1)}

\* the columns of the pixels read: the two rim regions and the sampled band
columnsRead(width) ==
    (leftRegionStartOf(width)..(leftRegionEndOf(width) - 1))
    \cup (rightRegionStartOf(width)..(rightRegionEndOf(width) - 1))
    \cup (startXOf(width)..(endXOf(width) - 1))

\* the returned object; beerLevel = beerHeight / glassHeight is kept as the
\* pair of its numerator and denominator
analysisResult(glassTop, glassBottom, liquidLevel, leftRimTop, rightRimTop) ==
    [beerLevel   |-> [num |-> glassBottom - liquidLevel, den |-> glassBottom - glassTop],
     glassTop    |-> glassTop,
     glassBottom |-> glassBottom,
     liquidLevel |-> liquidLevel,
     leftRimTop  |-> leftRimTop,
     rightRimTop |-> rightRimTop]

combineRims(leftRimTop, rightRimTop) == Min2(leftRimTop, rightRimTop)

analyzeWith(img, width, leftRimTop, rightRimTop, glassBottom) ==
    analysisResult(combineRims(leftRimTop, rightRimTop), glassBottom,
                   findLiquidLevel(img, width, combineRims(leftRimTop, rightRimTop),
                                   glassBottom),
                   leftRimTop, rightRimTop)

analyzeBeerLevel(img, width, height) ==
    analyzeWith(img, width,
                rimTop(leftTopEdges(img, width, height), height),
                rimTop(rightTopEdges(img, width, height), height),
                findGlassBottom(img, width, height))

(***************************************************************************)
(* Scoring and feedback of src/js/app.js.                                  *)
(***************************************************************************)
maxAllowedDifference == 10

\* Math.round of the rational num / den (den > 0): halves round up
MathRound(num, den) == (2 * num + den) \div (2 * den)

\* const targetY = Math.round(glassBottom - (glassBottom - glassTop) * 0.6)
targetYOf(analysis) ==
    MathRound(10 * analysis.glassBottom - 6 * (analysis.glassBottom - analysis.glassTop), 10)

\* calculateScore with twice the allowed difference
calculateScoreLenient(liquidLevel, targetY) ==
    LET pixelDifference == Abs(liquidLevel - targetY)
    IN  MathRound(Max2(0, 100 * 2 * maxAllowedDifference - pixelDifference * 100),
                  2 * maxAllowedDifference)

\* row-based calculateScore(liquidLevel, targetY)
calculateScore(liquidLevel, targetY) ==
    LET pixelDifference == Abs(liquidLevel - targetY)
    IN  MathRound(Max2(0, 100 * maxAllowedDifference - pixelDifference * 100),
                  maxAllowedDifference)

\* score.toFixed(2) of an integer score: the digits <<whole part, hundredths>>
toFixed2(score) == <<score, 0>>

\* the ternary of the four hint messages
hintOf(liquidLevel, targetY, above, below) ==
    IF liquidLevel < targetY THEN above ELSE below

\* displayResults with the strict comparisons of the earlier revisions
displayResultsStrict(score, targetY, lastAn) ==
    [scoreText |-> toFixed2(score),
     feedback  |->
        IF score > 95 THEN <<"Perfect", "none">>
        ELSE IF score > 85
             THEN <<"Almost there", hintOf(lastAn.liquidLevel, targetY, "higher", "lower")>>
        ELSE IF score > 70
             THEN <<"Getting closer", hintOf(lastAn.liquidLevel, targetY, "up", "down")>>
        ELSE IF score > 50
             THEN <<"Keep adjusting", hintOf(lastAn.liquidLevel, targetY, "higher", "lower")>>
        ELSE <<"Try again", hintOf(lastAn.liquidLevel, targetY, "higher", "lower")>>,
     display   |-> "block"]

\* displayResults(score, targetY): the texts written to scoreSpan and feedbackP
\* (feedback as <<band, hint>>) and the display style of the result panel
displayResults(score, targetY, lastAn) ==
    [scoreText |-> toFixed2(score),
     feedback  |->
        IF score >= 95 THEN <<"Perfect", "none">>
        ELSE IF score >= 85
             THEN <<"Almost there", hintOf(lastAn.liquidLevel, targetY, "higher", "lower")>>
        ELSE IF score >= 70
             THEN <<"Getting closer", hintOf(lastAn.liquidLevel, targetY, "up", "down")>>
        ELSE IF score >= 50
             THEN <<"Keep adjusting", hintOf(lastAn.liquidLevel, targetY, "higher", "lower")>>
        ELSE <<"Try again", hintOf(lastAn.liquidLevel, targetY, "higher", "lower")>>,
     display   |-> "block"]

\* drawPercentageOverlay: the two labels, from window.lastAnalysis; nothing is
\* drawn when one of the three rows is 0 (falsy)
percentageLabels(lastAn) ==
    IF lastAn.glassTop = 0 \/ lastAn.glassBottom = 0 \/ lastAn.liquidLevel = 0
    THEN <<>>
    ELSE LET totalHeight == lastAn.glassBottom - lastAn.glassTop
             emptyHeight == lastAn.liquidLevel - lastAn.glassTop
             beerHeight  == lastAn.glassBottom - lastAn.liquidLevel
         IN  <<MathRound(emptyHeight * 100, totalHeight),
               MathRound(beerHeight * 100, totalHeight)>>

\* what processImage draws over the captured frame: the rim line of
\* drawDebugVisualization, the bottom and liquid lines, the target line of
\* drawTargetLine and the labels of drawPercentageOverlay
overlayOf(analysis, targetY, lastAn) ==
    [rimLine    |-> Min2(analysis.leftRimTop, analysis.rightRimTop),
     bottomLine |-> analysis.glassBottom,
     liquidLine |-> analysis.liquidLevel,
     targetLine |-> targetY,
     labels     |-> percentageLabels(lastAn)]

(***************************************************************************)
(* Ratio-based calculateScore(actualLevel, targetLevel) of the earlier     *)
(* revisions.  Levels are rationals over LevelDen; the result is the       *)
(* score in hundredths (Math.round(score * 100) / 100).                    *)
(***************************************************************************)
LevelDen == canvasHeight

\* ratioScore without Math.abs
ratioScoreSigned(actualLevel, targetLevel) ==
    LET difference == actualLevel - targetLevel
    IN  MathRound(Max2(0, 100 * LevelDen - difference * 200) * 100, LevelDen)

\* ratioScore without Math.max(0, ...)
ratioScoreUnclamped(actualLevel, targetLevel) ==
    LET difference == Abs(actualLevel - targetLevel)
    IN  MathRound((100 * LevelDen - difference * 200) * 100, LevelDen)

ratioScore(actualLevel, targetLevel) ==
    LET difference == Abs(actualLevel - targetLevel)
    IN  MathRound(Max2(0, 100 * LevelDen - difference * 200) * 100, LevelDen)

(***************************************************************************)
(* The frames the camera delivers in the model.                            *)
(***************************************************************************)
FullLen == canvasWidth * canvasHeight * 4

Frame(len, l, l2, m, m2, r, r2) ==
    [len |-> len, l |-> l, l2 |-> l2, m |-> m, m2 |-> m2, r |-> r, r2 |-> r2]

\* column profiles: one colour; colour top above row R and bottom from R on;
\* a stripe of ink over the rows a..b-1
Solid(c) == <<<<0, c>>>>
Step(R, top, bottom) ==
    IF R = 0 THEN Solid(bottom) ELSE <<<<0, top>>, <<R, bottom>>>>
Stripe(a, b, paper, ink) == <<<<0, paper>>, <<a, ink>>, <<b, paper>>>>
StepAndStripe(R, top, bottom, a, b, ink) ==
    <<<<0, top>>, <<R, bottom>>, <<a, ink>>, <<b, bottom>>>>

\* light colours (brightness 200 and 255) and dark ones (every channel < 60)
Gray200 == <<200, 200, 200>>
Cream200 == <<230, 200, 170>>
White == <<255, 255, 255>>
Black == <<0, 0, 0>>
Stout == <<30, 20, 10>>
Lights == {Gray200, Cream200, White}
Darks == {Black, Stout}

\* the sampled band is top above row R and bottom from row R on; the rim
\* regions have the single colour side
TwoTone(R, top, bottom, side) ==
    Frame(FullLen, Solid(side), Solid(side), Step(R, top, bottom), Step(R, top, bottom),
          Solid(side), Solid(side))

\* the whole row changes colour at row R
FullWidth(R, top, bottom) ==
    Frame(FullLen, Step(R, top, bottom), Step(R, top, bottom), Step(R, top, bottom),
          Step(R, top, bottom), Step(R, top, bottom), Step(R, top, bottom))

\* a glass: rim marks in the left and right region (one of them on the even
\* columns only), liquid from row R, a base mark in the sampled band
Glass(R, leftRim, rightRim, base) ==
    Frame(FullLen,
          Stripe(leftRim, leftRim + 2, Gray200, Black), Solid(Gray200),
          StepAndStripe(R, Gray200, Stout, base, base + 2, White),
          StepAndStripe(R, Gray200, Stout, base, base + 2, White),
          Stripe(rightRim, rightRim + 2, Gray200, Black),
          Stripe(rightRim, rightRim + 2, Gray200, Black))

\* two stripes of ink, over the rows a..b-1 and c..d-1
TwoStripes(a, b, c, d, paper, ink) ==
    <<<<0, paper>>, <<a, ink>>, <<b, paper>>, <<c, ink>>, <<d, paper>>>>

\* rim marks of different strength: in the left region a mark on the even
\* columns only at row weak and a mark on every column at row strong, in the
\* right region a mark on every column at row right
RimMarks(weak, strong, right) ==
    Frame(FullLen,
          TwoStripes(weak, weak + 2, strong, strong + 2, Gray200, Black),
          Stripe(strong, strong + 2, Gray200, Black),
          Step(200, Gray200, Black), Step(200, Gray200, Black),
          Stripe(right, right + 2, Gray200, Black),
          Stripe(right, right + 2, Gray200, Black))

\* three layers in the sampled band: light, stout from row R1, black from R2
Layered(R1, R2) ==
    Frame(FullLen, Solid(Gray200), Solid(Gray200),
          <<<<0, Gray200>>, <<R1, Stout>>, <<R2, Black>>>>,
          <<<<0, Gray200>>, <<R1, Stout>>, <<R2, Black>>>>,
          Solid(Gray200), Solid(Gray200))

\* a black band over the rows R1..R2-1 of the sampled band: two transitions
\* of the same size
Banded(R1, R2) ==
    Frame(FullLen, Solid(Gray200), Solid(Gray200),
          Stripe(R1, R2, Gray200, Black), Stripe(R1, R2, Gray200, Black),
          Solid(Gray200), Solid(Gray200))

\* a soft liquid line (light gray to a slightly darker gray at row R: a
\* transition for the window comparison, no edge for the pixel tests) and a
\* rim mark on every column of each rim region
Gray180 == <<180, 180, 180>>
SoftLiquid(R, leftRim, rightRim) ==
    Frame(FullLen,
          Stripe(leftRim, leftRim + 2, Gray200, Black),
          Stripe(leftRim, leftRim + 2, Gray200, Black),
          Step(R, Gray200, Gray180), Step(R, Gray200, Gray180),
          Stripe(rightRim, rightRim + 2, Gray200, Black),
          Stripe(rightRim, rightRim + 2, Gray200, Black))

\* rows of the two-tone frames: outside and inside the rows the liquid scan
\* visits, and around the target row of the default geometry
BoundaryRows == {0, 30, 50, 54, 55, 120, 200, 290, 355, 356, 400, 479}
TargetRows == {167, 168, 170, 172, 173, 174, 176, 178, 179}
\* rows one eighth and three eighths down the default glass (rows 48 to 360)
EighthRows == {87, 165}

WellFormedFrames ==
    {TwoTone(R, Gray200, Black, Gray200) :
        R \in BoundaryRows \cup TargetRows \cup EighthRows}
    \cup {TwoTone(R, Cream200, Stout, Black) : R \in BoundaryRows}
    \cup {TwoTone(120, White, Black, White), TwoTone(480, Gray200, Black, Gray200)}
    \cup {FullWidth(R, Gray200, Black) : R \in {120, 200}}
    \cup {Glass(200, 60, 70, 400), Glass(130, 100, 80, 300), Glass(75, 60, 60, 420),
          Glass(250, 150, 50, 288)}
    \cup {RimMarks(60, 100, 90), Layered(150, 250), Banded(150, 250)}

\* buffers whose length is not width * height * 4: empty, one row short,
\* half a picture
WithLength(f, len) == [f EXCEPT !.len = len]
MalformedFrames ==
    {WithLength(f, len) :
        f \in {TwoTone(120, Gray200, Black, Gray200), TwoTone(173, Gray200, Black, Gray200),
               Glass(200, 60, 70, 400)},
        len \in {0, FullLen - canvasWidth * 4, FullLen \div 2, FullLen - 1}}

\* what the camera can show during one run: one scene, or two
Scenes(frames) ==
    {{f} : f \in frames}
    \cup {{TwoTone(120, Gray200, Black, Gray200), g} :
             g \in {TwoTone(173, Gray200, Black, Gray200), Glass(200, 60, 70, 400)} \cap frames}

(***************************************************************************)
(* State.                                                                  *)
(***************************************************************************)
VARIABLES
    camera,             \* the frames the video can show (the environment)
    pc,                 \* position of initCamera
    stream,             \* "null", or "live" once getUserMedia has resolved
    alert,              \* the alert raised by the last step, or "none"
    videoDisplay,       \* video.style.display
    canvasDisplay,      \* canvas.style.display
    captureBtnDisplay,  \* captureBtn.style.display
    resultDisplay,      \* resultDiv.style.display
    canvasFrame,        \* the frame drawn on the canvas
    overlay,            \* the lines and labels drawn over it
    lastAnalysis,       \* window.lastAnalysis
    scoreText,          \* scoreSpan.textContent
    feedbackText,       \* feedbackP.textContent
    call                \* the last call of a scoring function on its own

vars == <<camera, pc, stream, alert, videoDisplay, canvasDisplay,
          captureBtnDisplay, resultDisplay, canvasFrame, overlay, lastAnalysis,
          scoreText, feedbackText, call>>

uiVars == <<videoDisplay, canvasDisplay, captureBtnDisplay, resultDisplay, canvasFrame,
            overlay, lastAnalysis, scoreText, feedbackText>>

Undefined == [undefined |-> TRUE]
Blank == [blank |-> TRUE]
NoCall == [fn |-> "none"]

InitPage ==
    /\ pc = "backCamera"
    /\ stream = "null"
    /\ alert = "none"
    /\ videoDisplay = "block"
    /\ canvasDisplay = "none"
    /\ captureBtnDisplay = "none"
    /\ resultDisplay = "none"
    /\ canvasFrame = Blank
    /\ overlay = Blank
    /\ lastAnalysis = Undefined
    /\ scoreText = <<>>
    /\ feedbackText = <<>>
    /\ call = NoCall

Init == InitPage /\ camera \in Scenes(WellFormedFrames)

\* the analysis given any buffer, of the right length or not
InitAnyBuffer == InitPage /\ camera \in Scenes(WellFormedFrames \cup MalformedFrames)

(***************************************************************************)
(* initCamera.                                                             *)
(***************************************************************************)
\* getUserMedia({facingMode: {exact: "environment"}}) resolves
BackCameraGranted ==
    /\ pc = "backCamera"
    /\ stream' = "live"
    /\ pc' = "metadata"
    /\ alert' = "none"
    /\ UNCHANGED <<camera, uiVars, call>>

\* it rejects: getUserMedia({video: true}) is requested
BackCameraDenied ==
    /\ pc = "backCamera"
    /\ pc' = "anyCamera"
    /\ alert' = "none"
    /\ UNCHANGED <<camera, stream, uiVars, call>>

AnyCameraGranted ==
    /\ pc = "anyCamera"
    /\ stream' = "live"
    /\ pc' = "metadata"
    /\ alert' = "none"
    /\ UNCHANGED <<camera, uiVars, call>>

\* both requests failed: the outer catch alerts
AnyCameraDenied ==
    /\ pc = "anyCamera"
    /\ pc' = "failed"
    /\ alert' = "camera"
    /\ UNCHANGED <<camera, stream, uiVars, call>>

\* video.onloadedmetadata: video.play() is called
LoadedMetadata ==
    /\ pc = "metadata"
    /\ pc' = "play"
    /\ alert' = "none"
    /\ UNCHANGED <<camera, stream, uiVars, call>>

\* video.play() resolves, or rejects (the promise is resolved all the same):
\* the capture button is shown
PlayResolved ==
    /\ pc = "play"
    /\ pc' = "ready"
    /\ captureBtnDisplay' = "block"
    /\ alert' = "none"
    /\ UNCHANGED <<camera, stream, videoDisplay, canvasDisplay, resultDisplay,
                   canvasFrame, overlay, lastAnalysis, scoreText, feedbackText, call>>

\* PlayRejected without resolve() in the catch of video.play(): initCamera
\* never gets past its await
PlayRejectedNeverResolved ==
    /\ pc = "play"
    /\ pc' = "waiting"
    /\ captureBtnDisplay' = captureBtnDisplay
    /\ alert' = "none"
    /\ UNCHANGED <<camera, stream, videoDisplay, canvasDisplay, resultDisplay,
                   canvasFrame, overlay, lastAnalysis, scoreText, feedbackText, call>>

PlayRejected ==
    /\ pc = "play"
    /\ pc' = "ready"
    /\ captureBtnDisplay' = "block"
    /\ alert' = "none"
    /\ UNCHANGED <<camera, stream, videoDisplay, canvasDisplay, resultDisplay,
                   canvasFrame, overlay, lastAnalysis, scoreText, feedbackText, call>>

(***************************************************************************)
(* The capture button: the frame is drawn on the canvas and processImage   *)
(* runs to its end (it never awaits).                                      *)
(***************************************************************************)
\* ShowAnalysis with window.lastAnalysis assigned after the drawing and the
\* feedback instead of before: they read the analysis of the capture before
ShowAnalysisStale(analysis, targetY, score) ==
    LET read == IF lastAnalysis = Undefined THEN analysis ELSE lastAnalysis
    IN  /\ lastAnalysis' = analysis
        /\ overlay' = overlayOf(analysis, targetY, read)
        /\ scoreText' = displayResults(score, targetY, read).scoreText
        /\ feedbackText' = displayResults(score, targetY, read).feedback
        /\ resultDisplay' = displayResults(score, targetY, read).display
        /\ captureBtnDisplay' = "none"
        /\ alert' = "none"

\* ShowAnalysis without captureBtn.style.display = 'none'
ShowAnalysisKeepingButton(analysis, targetY, score) ==
    /\ lastAnalysis' = analysis
    /\ overlay' = overlayOf(analysis, targetY, analysis)
    /\ scoreText' = displayResults(score, targetY, analysis).scoreText
    /\ feedbackText' = displayResults(score, targetY, analysis).feedback
    /\ resultDisplay' = displayResults(score, targetY, analysis).display
    /\ captureBtnDisplay' = captureBtnDisplay
    /\ alert' = "none"

\* processImage from window.lastAnalysis = analysis on
ShowAnalysis(analysis, targetY, score) ==
    /\ lastAnalysis' = analysis
    /\ overlay' = overlayOf(analysis, targetY, analysis)
    /\ scoreText' = displayResults(score, targetY, analysis).scoreText
    /\ feedbackText' = displayResults(score, targetY, analysis).feedback
    /\ resultDisplay' = displayResults(score, targetY, analysis).display
    /\ captureBtnDisplay' = "none"
    /\ alert' = "none"

ProcessImage(analysis) ==
    ShowAnalysis(analysis, targetYOf(analysis),
                 calculateScore(analysis.liquidLevel, targetYOf(analysis)))

\* the click handler, getImageData returning the frame f
CaptureClick ==
    /\ captureBtnDisplay = "block"
    /\ \E f \in camera :
          /\ videoDisplay' = "none"
          /\ canvasDisplay' = "block"
          /\ canvasFrame' = f
          /\ ProcessImage(analyzeBeerLevel(f, canvasWidth, canvasHeight))
    /\ UNCHANGED <<camera, pc, stream, call>>

\* the click handler, getImageData throwing: the catch of processImage
\* alerts and goes back to the camera view
CaptureClickFails ==
    /\ captureBtnDisplay = "block"
    /\ \E f \in camera : canvasFrame' = f
    /\ alert' = "processing"
    /\ canvasDisplay' = "none"
    /\ videoDisplay' = "block"
    /\ captureBtnDisplay' = "block"
    /\ UNCHANGED <<camera, pc, stream, resultDisplay, overlay, lastAnalysis, scoreText,
                   feedbackText, call>>

\* the click handler, a step of processImage after window.lastAnalysis =
\* analysis throwing (a drawing call, or the first assignment of
\* displayResults): the analysis stays stored, the canvas holds what was drawn
\* before the throw, and the catch alerts and goes back to the camera view
CaptureClickFailsAfterAnalysis ==
    /\ captureBtnDisplay = "block"
    /\ \E f \in camera :
          \E analysis \in {analyzeBeerLevel(f, canvasWidth, canvasHeight)} :
             /\ canvasFrame' = f
             /\ lastAnalysis' = analysis
             /\ overlay' \in {Blank, overlayOf(analysis, targetYOf(analysis), analysis)}
    /\ alert' = "processing"
    /\ canvasDisplay' = "none"
    /\ videoDisplay' = "block"
    /\ captureBtnDisplay' = "block"
    /\ UNCHANGED <<camera, pc, stream, resultDisplay, scoreText, feedbackText, call>>

\* TryAgainClick without canvas.style.display = 'none'
TryAgainClickKeepingCanvas ==
    /\ resultDisplay = "block"
    /\ resultDisplay' = "none"
    /\ canvasDisplay' = canvasDisplay
    /\ videoDisplay' = "block"
    /\ captureBtnDisplay' = "block"
    /\ alert' = "none"
    /\ UNCHANGED <<camera, pc, stream, canvasFrame, overlay, lastAnalysis, scoreText,
                   feedbackText, call>>

\* the try-again button
TryAgainClick ==
    /\ resultDisplay = "block"
    /\ resultDisplay' = "none"
    /\ canvasDisplay' = "none"
    /\ videoDisplay' = "block"
    /\ captureBtnDisplay' = "block"
    /\ alert' = "none"
    /\ UNCHANGED <<camera, pc, stream, canvasFrame, overlay, lastAnalysis, scoreText,
                   feedbackText, call>>

Next ==
    \/ BackCameraGranted
    \/ BackCameraDenied
    \/ AnyCameraGranted
    \/ AnyCameraDenied
    \/ LoadedMetadata
    \/ PlayResolved
    \/ PlayRejected
    \/ CaptureClick
    \/ CaptureClickFails
    \/ TryAgainClick

Spec == Init /\ [][Next]_vars

SpecAnyBuffer == InitAnyBuffer /\ [][Next]_vars

\* the page with processImage throwing at any of its steps, on a few scenes
ThrowFrames ==
    {TwoTone(R, Gray200, Black, Gray200) : R \in {87, 120, 173, 200}}
    \cup {TwoTone(120, Cream200, Stout, Black), Glass(200, 60, 70, 400), Layered(150, 250)}

InitAnyThrow == InitPage /\ camera \in Scenes(ThrowFrames)

NextAnyThrow ==
    \/ Next
    \/ CaptureClickFailsAfterAnalysis

SpecAnyThrow == InitAnyThrow /\ [][NextAnyThrow]_vars

(***************************************************************************)
(* The scoring functions called on their own.                              *)
(***************************************************************************)
LevelStep == 20
MaxLevelSteps == 24
MaxDeviation == 15

\* levels as numerators over LevelDen: from -1 to 2, and the targets
TargetLevels == {(LevelDen * 3) \div 4, LevelDen \div 2, LevelDen}
Levels ==
    {LevelStep * j : j \in (0 - MaxLevelSteps)..(2 * MaxLevelSteps)} \cup TargetLevels

\* rows of target lines, and liquid rows around them and far from them
TargetYs == {126, 173, 240}
LiquidRows(targetY) ==
    {targetY + d : d \in (0 - MaxDeviation)..MaxDeviation} \cup {0, canvasHeight - 1}

InitScore == InitPage /\ camera = {}

\* calculateScore(actualLevel, targetLevel) of the ratio-based revisions
CallRatioScore ==
    /\ call = NoCall
    /\ \E a \in Levels, t \in TargetLevels :
          call' = [fn |-> "ratioScore", actual |-> a, target |-> t,
                   ret |-> ratioScore(a, t)]
    /\ UNCHANGED <<camera, pc, stream, alert, uiVars>>

\* calculateScore(liquidLevel, targetY) of app.js
CallCalculateScore ==
    /\ call = NoCall
    /\ \E t \in TargetYs :
          \E l \in LiquidRows(t) :
             call' = [fn |-> "calculateScore", liquidLevel |-> l, targetY |-> t,
                      ret |-> calculateScore(l, t)]
    /\ UNCHANGED <<camera, pc, stream, alert, uiVars>>

\* displayResults(score, targetY) of app.js, window.lastAnalysis.liquidLevel
\* being some row next to targetY or on it
CallDisplayResults ==
    /\ call = NoCall
    /\ \E score \in 0..100, t \in TargetYs :
          \E l \in {t - 1, t, t + 1} :
             call' = [fn |-> "displayResults", score |-> score, targetY |-> t,
                      liquidLevel |-> l,
                      ret |-> displayResults(score, t, [liquidLevel |-> l])]
    /\ UNCHANGED <<camera, pc, stream, alert, uiVars>>

NextScore ==
    \/ CallRatioScore
    \/ CallCalculateScore
    \/ CallDisplayResults

SpecScore == InitScore /\ [][NextScore]_vars

(***************************************************************************)
(* The back-rim / front-rim revision (src/unnamed/part_000, lines 633 to   *)
(* 1270): analyzeBeerLevel with its own regions, a front-rim scan under    *)
(* the back rim, the ratio-based score against targetLevel = 0.75 and a    *)
(* target line drawn at 0.60 of the glass height.                          *)
(***************************************************************************)
startXBackRim(width) == (width * 33) \div 100
endXBackRim(width) == (width * 66) \div 100
leftRegionEndBackRim(width) == (width * 4) \div 10
rightRegionStartBackRim(width) == (width * 6) \div 10

\* for (let y = 1; y < height - 1; y++): the count of edge pixels of row y
\* over the columns from..to-1
edgeCountBackRim(img, width, height, from, to, y) ==
    IF 1 <= y /\ y < height - 1
    THEN Cardinality({x \in from..(to - 1) : isEdgePixel(img, width, x, y)})
    ELSE 0

\* the edges pushed for one side: rows floor(0.05 h) .. floor(0.5 h) - 1 with
\* intensity > minEdgeStrength = 0.15
topEdgesBackRim(img, width, height, from, to) ==
    {e \in {[position |-> y,
             strength |-> edgeCountBackRim(img, width, height, from, to, y)] :
               y \in ((height * 5) \div 100)..((height \div 2) - 1)} :
        e.strength * 100 > 15 * (to - from)}

\* leftRimTop / rightRimTop: height * 0.25 unless an edge was found
rimTopBackRim(edges, height) ==
    IF edges = {}
    THEN height \div 4
    ELSE MinOf({e.position : e \in strongEdges(edges)})

\* 3 * (to - from) * leftBrightness of row y, and the same multiple of
\* leftEdgeStrength, over the columns x = from..to-1
RECURSIVE regionBrightness(_, _, _, _, _)
regionBrightness(img, width, y, from, to) ==
    IF from >= to
    THEN 0
    ELSE brightness3(img, width, (y * width + from) * 4)
         + regionBrightness(img, width, y, from + 1, to)

RECURSIVE regionEdgeStrength(_, _, _, _, _, _)
regionEdgeStrength(img, width, height, y, from, to) ==
    IF from >= to \/ ~(y < height - 1)
    THEN 0
    ELSE Abs(brightness3(img, width, (y * width + from) * 4)
             - brightness3(img, width, ((y + 1) * width + from) * 4))
         + regionEdgeStrength(img, width, height, y, from + 1, to)

\* leftBrightness > brightnessThreshold && leftEdgeStrength > edgeThreshold
isFrontRimRow(img, width, height, y, from, to) ==
    /\ regionBrightness(img, width, y, from, to) > 150 * 3 * (to - from)
    /\ regionEdgeStrength(img, width, height, y, from, to) > 20 * 3 * (to - from)

\* leftFrontRim / rightFrontRim: the last row y, backRim + 5 <= y <
\* backRim + maxRimDistance (0.15 h), that passes the test; backRim if none
frontRim(img, width, height, backRim, from, to) ==
    LET rows == {y \in (backRim + 5)..(height - 1) :
                    /\ 100 * y < 100 * backRim + 15 * height
                    /\ isFrontRimRow(img, width, height, y, from, to)}
    IN  IF rows = {} THEN backRim ELSE CHOOSE y \in rows : \A z \in rows : z <= y

\* glassBottom: the loop of app.js over the edge intensity of this
\* revision's sampled band, i.e. the first row of [floor(0.6 h), floor(0.9 h))
\* with the largest positive intensity, height * 0.75 if there is none
findGlassBottomBackRim(img, width, height) ==
    LET rows == ((height * 6) \div 10)..(((height * 9) \div 10) - 1)
        edge == [y \in rows |->
                    edgeCountBackRim(img, width, height, startXBackRim(width),
                                     endXBackRim(width), y)]
    IN  IF edge = edge
        THEN LET best == {y \in rows : edge[y] > 0 /\ \A z \in rows : edge[z] <= edge[y]}
             IN  IF best = {} THEN (height * 3) \div 4 ELSE MinOf(best)
        ELSE 0

\* the channel sums of row y over the columns from..to-1
RECURSIVE rowSumOver(_, _, _, _, _, _)
rowSumOver(img, width, y, ch, from, to) ==
    IF from >= to
    THEN 0
    ELSE Plus(imageDataAt(img, width, (y * width + from) * 4 + ch),
              rowSumOver(img, width, y, ch, from + 1, to))

bandSumsOver(img, width, lo, hi, from, to) ==
    [y \in lo..hi |-> <<rowSumOver(img, width, y, 0, from, to),
                        rowSumOver(img, width, y, 1, from, to),
                        rowSumOver(img, width, y, 2, from, to)>>]

\* the liquid loop, the same as in app.js, over this revision's sampled band
\* and from the front rim (the local glassTop)
findLiquidLevelBackRim(img, width, glassTop, glassBottom) ==
    LET sums == bandSumsOver(img, width, glassTop + 1, glassBottom - 1,
                             startXBackRim(width), endXBackRim(width))
        n    == (endXBackRim(width) - startXBackRim(width)) * windowSize
    IN  IF sums = sums
        THEN liquidScan(sums, n, glassTop + windowSize + 1, glassBottom - windowSize,
                        <<0, glassBottom>>)[2]
        ELSE glassBottom

\* the returned object: glassTop and glassHeight use Math.max(leftRimTop,
\* rightRimTop), not the glassTop the liquid loop has used
analysisResultBackRim(leftRimTop, rightRimTop, glassBottom, liquidLevel) ==
    [beerLevel   |-> [num |-> glassBottom - liquidLevel,
                      den |-> glassBottom - Max2(leftRimTop, rightRimTop)],
     glassTop    |-> Max2(leftRimTop, rightRimTop),
     glassBottom |-> glassBottom,
     liquidLevel |-> liquidLevel,
     leftRimTop  |-> leftRimTop,
     rightRimTop |-> rightRimTop]

analyzeBeerLevelBackRim(img, width, height) ==
    LET leftRimTop  == rimTopBackRim(topEdgesBackRim(img, width, height,
                           leftRegionStartOf(width), leftRegionEndBackRim(width)), height)
        rightRimTop == rimTopBackRim(topEdgesBackRim(img, width, height,
                           rightRegionStartBackRim(width), rightRegionEndOf(width)), height)
        backRim     == Min2(leftRimTop, rightRimTop)
        glassTop    == Max2(frontRim(img, width, height, backRim,
                                     leftRegionStartOf(width), leftRegionEndBackRim(width)),
                            frontRim(img, width, height, backRim,
                                     rightRegionStartBackRim(width), rightRegionEndOf(width)))
        glassBottom == findGlassBottomBackRim(img, width, height)
    IN  analysisResultBackRim(leftRimTop, rightRimTop, glassBottom,
                              findLiquidLevelBackRim(img, width, glassTop, glassBottom))

\* calculateScore(actualLevel, targetLevel) for levels given as fractions
\* [num, den]: the score in hundredths
ratioScoreOfFraction(actualLevel, targetLevel) ==
    LET den        == actualLevel.den * targetLevel.den
        difference == Abs(actualLevel.num * targetLevel.den
                          - targetLevel.num * actualLevel.den)
    IN  MathRound(Max2(0, 100 * den - difference * 200) * 100, den)

\* const targetLevel = 0.75
targetLevelBackRim == [num |-> 3, den |-> 4]

\* drawTargetLine: targetY = glassBottom - glassHeight * 0.60, from
\* window.lastAnalysis; nothing is drawn when a row is 0
targetLineBackRim(lastAn) ==
    IF lastAn.glassTop = 0 \/ lastAn.glassBottom = 0
    THEN [num |-> 0 - 1, den |-> 1]
    ELSE [num |-> 10 * lastAn.glassBottom - 6 * (lastAn.glassBottom - lastAn.glassTop),
          den |-> 10]

\* drawDebugVisualization, drawTargetLine and drawPercentageOverlay
overlayBackRim(analysis) ==
    [frontRimLine |-> Max2(analysis.leftRimTop, analysis.rightRimTop),
     backRimLine  |-> Min2(analysis.leftRimTop, analysis.rightRimTop),
     bottomLine   |-> analysis.glassBottom,
     liquidLine   |-> analysis.liquidLevel,
     targetLine   |-> targetLineBackRim(analysis),
     labels       |-> percentageLabels(analysis)]

\* displayResults(score): score in hundredths
displayResultsBackRim(score) ==
    [scoreText |-> <<score \div 100, score % 100>>,
     feedback  |-> IF score > 95 * 100 THEN <<"Perfect split">>
                   ELSE IF score > 85 * 100 THEN <<"Very close">>
                   ELSE IF score > 70 * 100 THEN <<"Not bad">>
                   ELSE <<"Room for improvement">>,
     display   |-> "block"]

\* the frames the camera delivers to this revision
BackRimFrames ==
    {SoftLiquid(R, 60, 200) : R \in {100, 150, 250}}
    \cup {SoftLiquid(250, 100, 100)}
    \cup {TwoTone(R, Gray200, Gray180, Gray200) : R \in {120, 200, 216, 250, 300}}
    \cup {TwoTone(R, Gray200, Black, Gray200) : R \in {120, 216, 250, 300}}
    \cup {Glass(200, 60, 70, 400), Glass(130, 100, 80, 300), Glass(75, 60, 60, 420),
          Glass(250, 150, 50, 288)}
    \cup {RimMarks(60, 100, 90), Layered(150, 250), Banded(150, 250)}

\* the page of this revision: the capture button is displayed from the
\* start, disabled until initCamera has run to its end (pc = "ready")
InitBackRim ==
    /\ pc = "backCamera"
    /\ stream = "null"
    /\ alert = "none"
    /\ videoDisplay = "block"
    /\ canvasDisplay = "none"
    /\ captureBtnDisplay = "block"
    /\ resultDisplay = "none"
    /\ canvasFrame = Blank
    /\ overlay = Blank
    /\ lastAnalysis = Undefined
    /\ scoreText = <<>>
    /\ feedbackText = <<>>
    /\ call = NoCall
    /\ camera \in {{f} : f \in BackRimFrames}

\* video.play() resolves, or rejects: captureBtn.disabled = false
PlayResolvedBackRim ==
    /\ pc = "play"
    /\ pc' = "ready"
    /\ alert' = "none"
    /\ UNCHANGED <<camera, stream, uiVars, call>>

PlayRejectedBackRim ==
    /\ pc = "play"
    /\ pc' = "ready"
    /\ alert' = "none"
    /\ UNCHANGED <<camera, stream, uiVars, call>>

\* processImage of this revision, after getImageData
ProcessImageBackRim(analysis) ==
    /\ lastAnalysis' = analysis
    /\ overlay' = overlayBackRim(analysis)
    /\ scoreText' =
          displayResultsBackRim(ratioScoreOfFraction(analysis.beerLevel,
                                                     targetLevelBackRim)).scoreText
    /\ feedbackText' =
          displayResultsBackRim(ratioScoreOfFraction(analysis.beerLevel,
                                                     targetLevelBackRim)).feedback
    /\ resultDisplay' =
          displayResultsBackRim(ratioScoreOfFraction(analysis.beerLevel,
                                                     targetLevelBackRim)).display
    /\ captureBtnDisplay' = "none"
    /\ alert' = "none"

\* the click handler of the capture button
CaptureClickBackRim ==
    /\ pc = "ready"
    /\ captureBtnDisplay = "block"
    /\ \E f \in camera :
          /\ videoDisplay' = "none"
          /\ canvasDisplay' = "block"
          /\ canvasFrame' = f
          /\ ProcessImageBackRim(analyzeBeerLevelBackRim(f, canvasWidth, canvasHeight))
    /\ UNCHANGED <<camera, pc, stream, call>>

\* the click handler, getImageData throwing: the catch only alerts
CaptureClickFailsBackRim ==
    /\ pc = "ready"
    /\ captureBtnDisplay = "block"
    /\ \E f \in camera : canvasFrame' = f
    /\ videoDisplay' = "none"
    /\ canvasDisplay' = "block"
    /\ alert' = "processing"
    /\ UNCHANGED <<camera, pc, stream, captureBtnDisplay, resultDisplay, overlay,
                   lastAnalysis, scoreText, feedbackText, call>>

NextBackRim ==
    \/ BackCameraGranted
    \/ BackCameraDenied
    \/ AnyCameraGranted
    \/ AnyCameraDenied
    \/ LoadedMetadata
    \/ PlayResolvedBackRim
    \/ PlayRejectedBackRim
    \/ CaptureClickBackRim
    \/ CaptureClickFailsBackRim
    \/ TryAgainClick

SpecBackRim == InitBackRim /\ [][NextBackRim]_vars

(***************************************************************************)
(* The earlier revisions of analyzeBeerLevel, called on their own:         *)
(*   - the darkness-threshold revision (src/unnamed/part_000, lines 1 to   *)
(*     220): dark pixels per row (every channel < 60), a 10-row window;    *)
(*   - its successor (src/unnamed/part_002): dark pixels with every        *)
(*     channel < 80 and a spread < 30, a 20-row window;                    *)
(*   - the sliding-window revision (src/unnamed/part_001): glass top and   *)
(*     bottom from the edges of the sampled band, the liquid level from a  *)
(*     5-row window over liquidTransitionByRow.                            *)
(* All three sample the columns floor(0.33 w) .. floor(0.66 w) - 1.  The   *)
(* per-row ratios are kept as counts, the window means as window sums.     *)
(***************************************************************************)
windowSizeDarkness == 10
windowSizeTrueDarkness == 20

\* r < 60 && g < 60 && b < 60 for the pixel (x, y)
isDarkPixel(img, width, x, y) ==
    LET r == imageDataAt(img, width, (y * width + x) * 4)
        g == imageDataAt(img, width, (y * width + x) * 4 + 1)
        b == imageDataAt(img, width, (y * width + x) * 4 + 2)
    IN  /\ r # NaN /\ g # NaN /\ b # NaN
        /\ r < 60 /\ g < 60 /\ b < 60

\* r < 80 && g < 80 && b < 80 && Math.max(r, g, b) - Math.min(r, g, b) < 30
isTrueDarkPixel(img, width, x, y) ==
    LET r == imageDataAt(img, width, (y * width + x) * 4)
        g == imageDataAt(img, width, (y * width + x) * 4 + 1)
        b == imageDataAt(img, width, (y * width + x) * 4 + 2)
    IN  /\ r # NaN /\ g # NaN /\ b # NaN
        /\ r < 80 /\ g < 80 /\ b < 80
        /\ Max2(r, Max2(g, b)) - Min2(r, Min2(g, b)) < 30

\* darkPixelsByRow before the division by sampleWidth, for each revision
darkPixelsByRow(img, width, height) ==
    [y \in 0..(height - 1) |->
        Cardinality({x \in startXBackRim(width)..(endXBackRim(width) - 1) :
                        isDarkPixel(img, width, x, y)})]

trueDarkPixelsByRow(img, width, height) ==
    [y \in 0..(height - 1) |->
        Cardinality({x \in startXBackRim(width)..(endXBackRim(width) - 1) :
                        isTrueDarkPixel(img, width, x, y)})]

\* byRow.slice(lo, hi).reduce((a, b) => a + b)
RECURSIVE sliceSum(_, _, _)
sliceSum(byRow, lo, hi) ==
    IF lo >= hi THEN 0 ELSE byRow[lo] + sliceSum(byRow, lo + 1, hi)

\* windowTransition without Math.abs
windowTransitionSigned(byRow, size, y) ==
    sliceSum(byRow, y - size, y) - sliceSum(byRow, y, y + size)

\* Math.abs(above - below), times size * sampleWidth
windowTransition(byRow, size, y) ==
    Abs(sliceSum(byRow, y - size, y) - sliceSum(byRow, y, y + size))

\* transitionStep with >= for >: among equal transitions the last one
transitionStepOrEqual(byRow, size, y, st) ==
    IF windowTransition(byRow, size, y) >= st[1]
    THEN <<windowTransition(byRow, size, y), y>>
    ELSE st

\* one iteration of the loop: st = <<maxTransition, transitionPoint>>
transitionStep(byRow, size, y, st) ==
    IF windowTransition(byRow, size, y) > st[1]
    THEN <<windowTransition(byRow, size, y), y>>
    ELSE st

\* the iterations for y = lo, lo + 1, ..., hi in this order
RECURSIVE transitionScan(_, _, _, _, _)
transitionScan(byRow, size, lo, hi, st) ==
    IF lo > hi
    THEN st
    ELSE IF lo = hi
         THEN transitionStep(byRow, size, lo, st)
         ELSE LET first == transitionScan(byRow, size, lo, (lo + hi) \div 2, st)
              IN  IF first = first    \* the upper rows are evaluated first
                  THEN transitionScan(byRow, size, ((lo + hi) \div 2) + 1, hi, first)
                  ELSE first

\* for (let y = size; y < height - size; y++), from maxTransition = 0 and
\* transitionPoint = height * 0.75
findTransitionPoint(byRow, size, height) ==
    IF byRow = byRow    \* the counts are evaluated once
    THEN transitionScan(byRow, size, size, height - size - 1, <<0, (height * 3) \div 4>>)
    ELSE <<0, 0>>

\* the returned beerLevel = 1 - transitionPoint / height as the pair of its
\* numerator and denominator, with the two locals of the loop; maxTransition
\* is a fraction of size * sampleWidth
darknessResult(found, size, width, height) ==
    [beerLevel       |-> [num |-> height - found[2], den |-> height],
     transitionPoint |-> found[2],
     maxTransition   |-> [num |-> found[1],
                          den |-> size * (endXBackRim(width) - startXBackRim(width))]]

analyzeBeerLevelDarkness(img, width, height) ==
    darknessResult(findTransitionPoint(darkPixelsByRow(img, width, height),
                                       windowSizeDarkness, height),
                   windowSizeDarkness, width, height)

\* if (maxTransition < 0.3) only logs: the result is the same either way
analyzeBeerLevelTrueDarkness(img, width, height) ==
    darknessResult(findTransitionPoint(trueDarkPixelsByRow(img, width, height),
                                       windowSizeTrueDarkness, height),
                   windowSizeTrueDarkness, width, height)

\* the sliding-window revision: liquidTransitionByRow over rows 1 .. height - 2
liquidTransitionSliding(img, width, height) ==
    [y \in 0..(height - 1) |->
        IF 1 <= y /\ y < height - 1
        THEN Cardinality({x \in startXBackRim(width)..(endXBackRim(width) - 1) :
                             isTransitionPixel(img, width, x, y)})
        ELSE 0]

\* glassTop: the smallest row among the three strongest edges of the sampled
\* band in rows floor(0.05 h) .. floor(0.5 h) - 1, height * 0.25 if none
glassTopSliding(img, width, height) ==
    rimTopBackRim(topEdgesBackRim(img, width, height, startXBackRim(width),
                                  endXBackRim(width)), height)

\* glassBottom: the first row of the largest edge intensity in
\* [floor(0.6 h), floor(0.9 h)), height * 0.75 if none
glassBottomSliding(img, width, height) == findGlassBottomBackRim(img, width, height)

\* findLiquidLevelSliding with the loop starting at the rim itself
findLiquidLevelSlidingFromRim(byRow, glassTop, glassBottom) ==
    IF byRow = byRow
    THEN transitionScan(byRow, windowSize, glassTop, glassBottom - windowSize - 1,
                        <<0, glassBottom>>)[2]
    ELSE glassBottom

\* for (let y = glassTop + windowSize; y < glassBottom - windowSize; y++)
findLiquidLevelSliding(byRow, glassTop, glassBottom) ==
    IF byRow = byRow
    THEN transitionScan(byRow, windowSize, glassTop + windowSize,
                        glassBottom - windowSize - 1, <<0, glassBottom>>)[2]
    ELSE glassBottom

analyzeBeerLevelSliding(img, width, height) ==
    LET glassTop    == glassTopSliding(img, width, height)
        glassBottom == glassBottomSliding(img, width, height)
        liquidLevel == findLiquidLevelSliding(liquidTransitionSliding(img, width, height),
                                              glassTop, glassBottom)
    IN  [beerLevel   |-> [num |-> glassBottom - liquidLevel, den |-> glassBottom - glassTop],
         glassTop    |-> glassTop,
         glassBottom |-> glassBottom,
         liquidLevel |-> liquidLevel]

\* colours that one darkness test accepts and the other rejects
Brown == <<50, 10, 10>>
Gray70 == <<70, 70, 70>>

\* the sampled band has the colour even on its even columns and odd on its
\* odd columns, on every row
Uniform(even, odd) ==
    Frame(FullLen, Solid(Gray200), Solid(Gray200), Solid(even), Solid(odd),
          Solid(Gray200), Solid(Gray200))

\* the even columns of the sampled band turn black at row R, the odd ones
\* stay light
HalfDark(R) ==
    Frame(FullLen, Solid(Gray200), Solid(Gray200), Step(R, Gray200, Black), Solid(Gray200),
          Solid(Gray200), Solid(Gray200))

\* rows at the two ends of the loops (windows of 10 and 20 rows) and between
EarlierRows == {5, 10, 11, 19, 20, 21, 120, 240, 360, 361, 459, 460, 469, 470, 475}

EarlierFrames ==
    {TwoTone(R, Gray200, Black, Gray200) : R \in EarlierRows}
    \cup {TwoTone(R, Cream200, Stout, Black) : R \in {120, 240}}
    \cup {TwoTone(240, Gray200, Brown, Gray200), TwoTone(240, Gray200, Gray70, Gray200)}
    \cup {Uniform(even, odd) : even \in {Gray200, Black}, odd \in {Gray200, Black}}
    \cup {Banded(200, 204), Banded(200, 205), Banded(200, 206), Banded(400, 404),
          Banded(150, 250), Layered(150, 250), HalfDark(100), HalfDark(200)}
    \cup {Glass(200, 60, 70, 400), Glass(130, 100, 80, 300), Glass(75, 60, 60, 420),
          Glass(250, 150, 50, 288), RimMarks(60, 100, 90)}

\* const targetLevel = 0.75 of processImage
targetLevelDarkness == [num |-> 3, den |-> 4]

\* analyzeBeerLevel of the darkness-threshold revision and the score that
\* processImage computes from its beerLevel (in hundredths)
CallAnalyzeDarkness ==
    /\ call = NoCall
    /\ \E f \in EarlierFrames :
          \E ret \in {analyzeBeerLevelDarkness(f, canvasWidth, canvasHeight)} :
             call' = [fn |-> "analyzeBeerLevelDarkness", imageData |-> f, ret |-> ret,
                      score |-> ratioScoreOfFraction(ret.beerLevel, targetLevelDarkness)]
    /\ UNCHANGED <<camera, pc, stream, alert, uiVars>>

\* analyzeBeerLevel of src/unnamed/part_002
CallAnalyzeTrueDarkness ==
    /\ call = NoCall
    /\ \E f \in EarlierFrames :
          \E ret \in {analyzeBeerLevelTrueDarkness(f, canvasWidth, canvasHeight)} :
             call' = [fn |-> "analyzeBeerLevelTrueDarkness", imageData |-> f, ret |-> ret,
                      score |-> ratioScoreOfFraction(ret.beerLevel, targetLevelDarkness)]
    /\ UNCHANGED <<camera, pc, stream, alert, uiVars>>

\* analyzeBeerLevel of src/unnamed/part_001
CallAnalyzeSliding ==
    /\ call = NoCall
    /\ \E f \in EarlierFrames :
          \E ret \in {analyzeBeerLevelSliding(f, canvasWidth, canvasHeight)} :
             call' = [fn |-> "analyzeBeerLevelSliding", imageData |-> f, ret |-> ret,
                      score |-> ratioScoreOfFraction(ret.beerLevel, targetLevelDarkness)]
    /\ UNCHANGED <<camera, pc, stream, alert, uiVars>>

NextEarlier ==
    \/ CallAnalyzeDarkness
    \/ CallAnalyzeTrueDarkness
    \/ CallAnalyzeSliding

SpecEarlier == InitScore /\ [][NextEarlier]_vars

(***************************************************************************)
(* Properties.                                                             *)
(***************************************************************************)
\* the sampled band of f is uniformly light above row R and uniformly dark
\* from row R downward, in a buffer of the right length
isTwoToneBand(f, R) ==
    /\ f # Blank
    /\ f.len = FullLen
    /\ \E top \in Lights, bottom \in Darks :
          f.m = Step(R, top, bottom) /\ f.m2 = Step(R, top, bottom)

\* the end-to-end frame: band of brightness 200 on rows 0-119 and near-black
\* from row 120 on, nothing else in the picture
isEndToEndFrame(f) ==
    /\ f # Blank
    /\ \E top \in {Gray200, Cream200}, bottom \in Darks, side \in Lights \cup Darks :
          f = TwoTone(120, top, bottom, side)

\* C1: every analysis of a buffer of the right length returns
\* glassTop <= liquidLevel <= glassBottom and a beerLevel in [0, 1].
C1_GeometryOrdered ==
    lastAnalysis # Undefined =>
        /\ lastAnalysis.glassTop <= lastAnalysis.liquidLevel
        /\ lastAnalysis.liquidLevel <= lastAnalysis.glassBottom
        /\ lastAnalysis.beerLevel.den > 0
        /\ 0 <= lastAnalysis.beerLevel.num
        /\ lastAnalysis.beerLevel.num <= lastAnalysis.beerLevel.den

\* a liquid level found strictly between rim and base
C1_Witness ==
    /\ lastAnalysis # Undefined
    /\ lastAnalysis.glassTop < lastAnalysis.liquidLevel
    /\ lastAnalysis.liquidLevel < lastAnalysis.glassBottom

\* C2: the ratio-based score is 100 when the level is the target, and for a
\* fixed target it never increases as |actualLevel - targetLevel| grows.
C2_RatioScoreMonotone ==
    call.fn = "ratioScore" =>
        /\ call.actual = call.target => call.ret = 100 * 100
        /\ \A other \in Levels :
              Abs(other - call.target) >= Abs(call.actual - call.target)
                  => ratioScore(other, call.target) <= call.ret

\* a level off the target with a score strictly between 0 and 100
C2_Witness ==
    /\ call.fn = "ratioScore"
    /\ call.actual # call.target
    /\ call.ret > 0
    /\ call.ret < 100 * 100

\* C3: both scoring forms return a value in [0, 100], also for deviations of
\* more than the whole glass and for any number of rows.
C3_ScoreClamped ==
    /\ call.fn = "ratioScore" => 0 <= call.ret /\ call.ret <= 100 * 100
    /\ call.fn = "calculateScore" => 0 <= call.ret /\ call.ret <= 100

\* a ratio more than a whole glass off the target, scored 0
C3_Witness ==
    /\ call.fn = "ratioScore"
    /\ Abs(call.actual - call.target) > LevelDen
    /\ call.ret = 0

\* C4: the row-based score loses 10 points per row of deviation and is 0 from
\* 10 rows of deviation on.
C4_TenPointsPerRow ==
    call.fn = "calculateScore" =>
        LET deviation == Abs(call.liquidLevel - call.targetY)
        IN  call.ret = IF deviation >= 10 THEN 0 ELSE 100 - 10 * deviation

\* three rows off the target: 70 points
C4_Witness ==
    /\ call.fn = "calculateScore"
    /\ Abs(call.liquidLevel - call.targetY) = 3
    /\ call.ret = 70

\* C5: the target row is at 0.75 of the detected glass height above the base,
\* up to rounding: |targetY - (glassBottom - 0.75 (glassBottom - glassTop))| <= 1/2.
C5_TargetAtThreeQuarters ==
    overlay # Blank =>
        Abs(4 * overlay.targetLine
            - (lastAnalysis.glassBottom + 3 * lastAnalysis.glassTop)) <= 2

\* C6 as stated: for every row R, a band light above R and dark from R on
\* gives a liquid level within one row of R.
C6_EveryBoundaryRow ==
    resultDisplay = "block" =>
        \A R \in 0..(canvasHeight - 1) :
            isTwoToneBand(canvasFrame, R) => Abs(lastAnalysis.liquidLevel - R) <= 1

\* C6 amended: for every row R the liquid scan visits
\* (glassTop + 5 < R <= glassBottom - 5), a band light above R and dark from R
\* on gives a liquid level within one row of R.
C6_BoundaryRowInsideGlass ==
    resultDisplay = "block" =>
        \A R \in 0..(canvasHeight - 1) :
            /\ isTwoToneBand(canvasFrame, R)
            /\ lastAnalysis.glassTop + windowSize < R
            /\ R <= lastAnalysis.glassBottom - windowSize
            => Abs(lastAnalysis.liquidLevel - R) <= 1

\* the boundary at row 200 is found
C6_Witness ==
    /\ resultDisplay = "block"
    /\ isTwoToneBand(canvasFrame, 200)
    /\ lastAnalysis.glassTop + windowSize < 200
    /\ lastAnalysis.liquidLevel = 200

\* C7: the end-to-end frame gives glassTop 48 (the fallback row), glassBottom
\* 360 (the default row), liquidLevel 120 and beerLevel (360 - 120) / (360 - glassTop).
C7_EndToEnd ==
    resultDisplay = "block" /\ isEndToEndFrame(canvasFrame) =>
        /\ lastAnalysis.glassTop = 48
        /\ lastAnalysis.glassBottom = 360
        /\ lastAnalysis.liquidLevel = 120
        /\ lastAnalysis.beerLevel.num * (360 - lastAnalysis.glassTop)
              = (360 - 120) * lastAnalysis.beerLevel.den

\* the end-to-end frame has been analysed and its result is shown
C7_Witness ==
    /\ resultDisplay = "block"
    /\ isEndToEndFrame(canvasFrame)
    /\ lastAnalysis.liquidLevel = 120

\* C8: every score in 0..100 gets exactly one band, the lower bounds 95, 85,
\* 70 and 50 included.
C8_FeedbackBands ==
    call.fn = "displayResults" =>
        call.ret.feedback[1] =
            CASE call.score >= 95 -> "Perfect"
              [] call.score >= 85 /\ call.score < 95 -> "Almost there"
              [] call.score >= 70 /\ call.score < 85 -> "Getting closer"
              [] call.score >= 50 /\ call.score < 70 -> "Keep adjusting"
              [] call.score < 50 -> "Try again"

\* the score 95 is in the top band
C8_Witness ==
    /\ call.fn = "displayResults"
    /\ call.score = 95
    /\ call.ret.feedback[1] = "Perfect"

\* C9: when a hint is shown, a liquid line below the target line
\* (liquidLevel > targetY) is told to go higher / up, one above it lower / down.
C9_HintDirection ==
    resultDisplay = "block" /\ feedbackText[2] # "none" =>
        /\ lastAnalysis.liquidLevel > overlay.targetLine
              => feedbackText[2] \in {"higher", "up"}
        /\ lastAnalysis.liquidLevel < overlay.targetLine
              => feedbackText[2] \in {"lower", "down"}

\* C10: a buffer whose length is not width * height * 4 leaves no analysis
\* behind: nothing stored in window.lastAnalysis, nothing drawn, no result shown.
C10_MalformedBufferRejected ==
    canvasFrame # Blank /\ canvasFrame.len # FullLen =>
        /\ lastAnalysis = Undefined
        /\ overlay = Blank
        /\ resultDisplay = "none"

\* no row between rim and base of the frame on the canvas, for the geometry
\* of the stored analysis, has a combined difference above minColorDiff
noTransitionShown ==
    LET diffs == colorDiffByRow(canvasFrame, canvasWidth, lastAnalysis.glassTop,
                                lastAnalysis.glassBottom)
    IN  IF diffs = diffs
        THEN \A y \in DOMAIN diffs : ~aboveMinColorDiff(diffs[y], canvasWidth)
        ELSE FALSE

\* C11: when no candidate row between rim and base has a combined colour
\* difference above 30, the analysis still completes, with liquidLevel equal
\* to glassBottom and a beerLevel of 0.
C11_NoTransitionDefaultsToBase ==
    resultDisplay = "block" /\ noTransitionShown
    => /\ lastAnalysis.liquidLevel = lastAnalysis.glassBottom
       /\ lastAnalysis.beerLevel.num = 0
       /\ lastAnalysis.beerLevel.den > 0

\* a frame without a transition between rim and base has been analysed and
\* its result is shown
C11_Witness ==
    /\ resultDisplay = "block"
    /\ noTransitionShown
    /\ lastAnalysis.liquidLevel = lastAnalysis.glassBottom
    /\ scoreText = toFixed2(0)

\* C12: while the result of a successful analysis is shown the capture button
\* is hidden and no step is a capture: the next analysis starts only after
\* the try-again button has been clicked.
C12_NoCaptureBeforeTryAgain ==
    [][resultDisplay = "block" =>
          /\ captureBtnDisplay = "none"
          /\ ~CaptureClick
          /\ ~CaptureClickFails]_vars

\* a later capture has been started (and has failed) after an analysis was
\* shown and reset with the try-again button
C12_Witness ==
    /\ lastAnalysis # Undefined
    /\ resultDisplay = "none"
    /\ alert = "processing"
    /\ captureBtnDisplay = "block"

\* C13: what a capture stores and shows (geometry, beerLevel, score, feedback,
\* overlay) is a function of the captured buffer alone, whatever was captured
\* before: window.lastAnalysis is the current capture's analysis when the
\* score and the feedback are computed.
C13_ResultDependsOnBufferOnly ==
    resultDisplay = "block" =>
        LET analysis == analyzeBeerLevel(canvasFrame, canvasWidth, canvasHeight)
        IN  IF analysis = analysis
            THEN LET targetY == targetYOf(analysis)
                     score   == calculateScore(analysis.liquidLevel, targetY)
                 IN  /\ lastAnalysis = analysis
                     /\ scoreText = toFixed2(score)
                     /\ feedbackText = displayResults(score, targetY, analysis).feedback
                     /\ overlay = overlayOf(analysis, targetY, analysis)
            ELSE FALSE

\* the glass frame is shown in a run whose camera also delivers another frame
\* (with its liquid line on the other side of its target line)
C13_Witness ==
    /\ resultDisplay = "block"
    /\ Cardinality(camera) = 2
    /\ canvasFrame = Glass(200, 60, 70, 400)
    /\ lastAnalysis.liquidLevel = 200
    /\ feedbackText = <<"Keep adjusting", "lower">>

\* the rim of one side as the statement gives it, from the edge intensities I
\* (counts over a region n columns wide) of the rows of a picture of the
\* given height
threeStrongestRim(I, n, height) ==
    LET rows      == {y \in 0..(height - 1) : y >= height \div 10 /\ 100 * y < 34 * height}
        qualified == {y \in rows : 100 * I[y] > 15 * n}
        stronger(a, b) == I[a] > I[b] \/ (I[a] = I[b] /\ a < b)
        strongest == {y \in qualified :
                         Cardinality({z \in qualified : stronger(z, y)}) < 3}
    IN  IF qualified = {}
        THEN height \div 10
        ELSE CHOOSE y \in strongest : \A z \in strongest : y <= z

\* C14: each side's rim is the smallest row among the three strongest rows of
\* [floor(0.1 h), 0.34 h) with edge intensity above 0.15 (ties: topmost rows
\* first), height * 0.1 if there is none; glassTop is the smaller of the two
\* rims and the rim line is drawn at that row.
C14_RimDetection ==
    resultDisplay = "block" =>
        LET left  == [y \in 0..(canvasHeight - 1) |->
                         leftEdgeIntensity(canvasFrame, canvasWidth, canvasHeight, y)]
            right == [y \in 0..(canvasHeight - 1) |->
                         rightEdgeIntensity(canvasFrame, canvasWidth, canvasHeight, y)]
        IN  IF left = left /\ right = right
            THEN /\ lastAnalysis.leftRimTop =
                       threeStrongestRim(left, leftRegionEndOf(canvasWidth)
                                               - leftRegionStartOf(canvasWidth), canvasHeight)
                 /\ lastAnalysis.rightRimTop =
                       threeStrongestRim(right, rightRegionEndOf(canvasWidth)
                                                - rightRegionStartOf(canvasWidth), canvasHeight)
                 /\ lastAnalysis.glassTop =
                       Min2(lastAnalysis.leftRimTop, lastAnalysis.rightRimTop)
                 /\ overlay.rimLine = lastAnalysis.glassTop
            ELSE FALSE

\* the left rim is found at the strong mark (row 99) below a weaker one (row
\* 59), the right rim at row 89, and the rim line is drawn at row 89
C14_Witness ==
    /\ resultDisplay = "block"
    /\ canvasFrame = RimMarks(60, 100, 90)
    /\ lastAnalysis.leftRimTop = 99
    /\ lastAnalysis.rightRimTop = 89
    /\ overlay.rimLine = 89

\* C15: glassBottom is the smallest row of [floor(0.6 h), floor(0.9 h)) at
\* which the edge intensity of the middle band is largest over that range,
\* when that largest intensity is positive; height * 0.75 otherwise.
C15_BaseDetection ==
    resultDisplay = "block" =>
        LET rows == ((canvasHeight * 6) \div 10)..(((canvasHeight * 9) \div 10) - 1)
            edge == [y \in rows |->
                        edgeIntensityByRow(canvasFrame, canvasWidth, canvasHeight, y)]
        IN  IF edge = edge
            THEN LET largest == CHOOSE m \in {edge[y] : y \in rows} :
                                    \A y \in rows : edge[y] <= m
                     first   == CHOOSE y \in rows :
                                    /\ edge[y] = largest
                                    /\ \A z \in rows : edge[z] = largest => y <= z
                 IN  lastAnalysis.glassBottom =
                         IF largest > 0 THEN first ELSE (canvasHeight * 3) \div 4
            ELSE FALSE

\* a base mark at rows 400-401 gives four rows of full edge intensity
\* (399..402): glassBottom is the first of them
C15_Witness ==
    /\ resultDisplay = "block"
    /\ canvasFrame = Glass(200, 60, 70, 400)
    /\ edgeIntensityByRow(canvasFrame, canvasWidth, canvasHeight, 402)
          = endXOf(canvasWidth) - startXOf(canvasWidth)
    /\ lastAnalysis.glassBottom = 399

\* C16: liquidLevel is the row y, glassTop + 5 < y <= glassBottom - 5, whose
\* combined difference between the 5-row window starting at y and the 5-row
\* window above it is the largest over all these rows, when that largest
\* difference exceeds 30 (glassBottom otherwise); among rows of equal largest
\* difference it is the one nearest the base.
C16_LiquidIsGlobalMaximum ==
    resultDisplay = "block" =>
        LET diffs == colorDiffByRow(canvasFrame, canvasWidth, lastAnalysis.glassTop,
                                    lastAnalysis.glassBottom)
        IN  IF diffs = diffs
            THEN LET rows    == {y \in 0..(canvasHeight - 1) :
                                    /\ lastAnalysis.glassTop + 5 < y
                                    /\ y <= lastAnalysis.glassBottom - 5}
                     largest == CHOOSE m \in {diffs[y] : y \in rows} :
                                    \A y \in rows : diffs[y] <= m
                     lowest  == CHOOSE y \in rows :
                                    /\ diffs[y] = largest
                                    /\ \A z \in rows : diffs[z] = largest => z <= y
                 IN  /\ rows = DOMAIN diffs
                     /\ rows # {}
                     /\ lastAnalysis.liquidLevel =
                           IF aboveMinColorDiff(largest, canvasWidth)
                           THEN lowest
                           ELSE lastAnalysis.glassBottom
            ELSE FALSE

\* two transitions above the threshold, the smaller one (row 250) nearer the
\* base and met first: the liquid level is the larger one at row 150
C16_Witness ==
    /\ resultDisplay = "block"
    /\ canvasFrame = Layered(150, 250)
    /\ LET diffs == colorDiffByRow(canvasFrame, canvasWidth, lastAnalysis.glassTop,
                                   lastAnalysis.glassBottom)
       IN  /\ aboveMinColorDiff(diffs[250], canvasWidth)
           /\ diffs[249] < diffs[250]
           /\ diffs[251] < diffs[250]
           /\ diffs[250] < diffs[150]
    /\ lastAnalysis.liquidLevel = 150

\* C17: every entry of leftEdgeIntensity, rightEdgeIntensity,
\* edgeIntensityByRow, liquidTransitionByRow and of the returned debugData
\* lies in [0, 1].
C17_RowArraysInUnitRange ==
    resultDisplay = "block" =>
        LET debug == debugData(canvasFrame, canvasWidth, canvasHeight,
                               lastAnalysis.glassTop, lastAnalysis.glassBottom)
            inUnitRange(count, n) == 0 <= count /\ count <= n
        IN  \A y \in 0..(canvasHeight - 1) :
               /\ inUnitRange(leftEdgeIntensity(canvasFrame, canvasWidth, canvasHeight, y),
                              leftRegionEndOf(canvasWidth) - leftRegionStartOf(canvasWidth))
               /\ inUnitRange(rightEdgeIntensity(canvasFrame, canvasWidth, canvasHeight, y),
                              rightRegionEndOf(canvasWidth) - rightRegionStartOf(canvasWidth))
               /\ inUnitRange(edgeIntensityByRow(canvasFrame, canvasWidth, canvasHeight, y),
                              endXOf(canvasWidth) - startXOf(canvasWidth))
               /\ inUnitRange(liquidTransitionByRow(canvasFrame, canvasWidth, canvasHeight, y),
                              endXOf(canvasWidth) - startXOf(canvasWidth))
               /\ inUnitRange(debug[y].num, debug[y].den)

\* C18: the analysis computes nothing for row 0 and row height - 1 (their
\* entries stay 0), and every pixel read in the edge pass and in the liquid
\* windows has its row in 0..height-1 and its bytes below width * height * 4.
C18_ReadsStayInsideBuffer ==
    resultDisplay = "block" =>
        LET written == rowsWritten(canvasHeight, lastAnalysis.glassTop,
                                   lastAnalysis.glassBottom)
            read    == rowsRead(canvasHeight, lastAnalysis.glassTop,
                                lastAnalysis.glassBottom)
            debug   == debugData(canvasFrame, canvasWidth, canvasHeight,
                                 lastAnalysis.glassTop, lastAnalysis.glassBottom)
        IN  /\ \A y \in {0, canvasHeight - 1} :
                  /\ y \notin written
                  /\ leftEdgeIntensity(canvasFrame, canvasWidth, canvasHeight, y) = 0
                  /\ rightEdgeIntensity(canvasFrame, canvasWidth, canvasHeight, y) = 0
                  /\ edgeIntensityByRow(canvasFrame, canvasWidth, canvasHeight, y) = 0
                  /\ liquidTransitionByRow(canvasFrame, canvasWidth, canvasHeight, y) = 0
                  /\ debug[y].num = 0
            /\ \A y \in read :
                  /\ 0 <= y
                  /\ y <= canvasHeight - 1
                  /\ \A x \in columnsRead(canvasWidth) :
                        /\ 0 <= (y * canvasWidth + x) * 4
                        /\ (y * canvasWidth + x) * 4 + 2 < canvasWidth * canvasHeight * 4

\* an analysis whose first pass has read rows 48 and 431 and whose liquid
\* windows reach from the row under the rim (60) to the row above the base (418)
C18_Witness ==
    /\ resultDisplay = "block"
    /\ lastAnalysis.glassTop = 59
    /\ lastAnalysis.glassBottom = 419
    /\ {48, 60, 418, 431} \subseteq rowsRead(canvasHeight, lastAnalysis.glassTop,
                                             lastAnalysis.glassBottom)

\* C19: in the back-rim revision the returned liquidLevel is below the
\* returned glassTop = max(leftRimTop, rightRimTop) and not below the base:
\* glassTop < liquidLevel <= glassBottom, hence 0 <= beerLevel <= 1.
C19_LiquidBelowReturnedRim ==
    lastAnalysis # Undefined =>
        /\ lastAnalysis.glassTop = Max2(lastAnalysis.leftRimTop, lastAnalysis.rightRimTop)
        /\ lastAnalysis.glassTop < lastAnalysis.liquidLevel
        /\ lastAnalysis.liquidLevel <= lastAnalysis.glassBottom
        /\ 0 <= lastAnalysis.beerLevel.num
        /\ lastAnalysis.beerLevel.num <= lastAnalysis.beerLevel.den

\* C20: the target line is drawn at the fill level the score is computed
\* against: a liquid level exactly on the drawn target line is scored 100.
C20_LiquidOnTargetLineScoresFull ==
    /\ resultDisplay = "block"
    /\ lastAnalysis.liquidLevel * overlay.targetLine.den = overlay.targetLine.num
    => scoreText = <<100, 0>>

\* C21: in the revision with the 20-row window a transition is accepted only
\* if its strength maxTransition is at least 0.3; when maxTransition < 0.3 the
\* returned beerLevel is the one of the default transition point height * 0.75.
C21_WeakTransitionFallsBack ==
    /\ call.fn = "analyzeBeerLevelTrueDarkness"
    /\ 10 * call.ret.maxTransition.num < 3 * call.ret.maxTransition.den
    => /\ call.ret.transitionPoint = (canvasHeight * 3) \div 4
       /\ 4 * call.ret.beerLevel.num = call.ret.beerLevel.den

\* C22: in the darkness-threshold revision (window 10), for a buffer whose
\* sampled band has no dark pixel above row R and only dark pixels from row R
\* on, 10 <= R < height - 10, the transition point is R and beerLevel is
\* 1 - R / height.
C22_DarkBoundaryFound ==
    call.fn = "analyzeBeerLevelDarkness" =>
        LET byRow == darkPixelsByRow(call.imageData, canvasWidth, canvasHeight)
            n     == endXBackRim(canvasWidth) - startXBackRim(canvasWidth)
        IN  IF byRow = byRow
            THEN LET R == Cardinality({y \in DOMAIN byRow : byRow[y] = 0})
                 IN  /\ \A y \in DOMAIN byRow : byRow[y] = IF y < R THEN 0 ELSE n
                     /\ 10 <= R
                     /\ R < canvasHeight - 10
                     => /\ call.ret.transitionPoint = R
                        /\ call.ret.beerLevel = [num |-> canvasHeight - R, den |-> canvasHeight]
            ELSE FALSE

\* the boundary on the last row the loop visits
C22_Witness ==
    /\ call.fn = "analyzeBeerLevelDarkness"
    /\ call.imageData = TwoTone(469, Gray200, Black, Gray200)
    /\ call.ret.transitionPoint = 469
    /\ call.ret.maxTransition.num = call.ret.maxTransition.den

\* C23: in the darkness-threshold revision a buffer whose rows all have the
\* same dark-pixel ratio leaves the transition point at height * 0.75, so
\* beerLevel is 0.25 and the score against the target 0.75 is 0.
C23_NoTransitionDefault ==
    call.fn = "analyzeBeerLevelDarkness" =>
        LET byRow == darkPixelsByRow(call.imageData, canvasWidth, canvasHeight)
        IN  IF byRow = byRow
            THEN (\A y \in DOMAIN byRow : byRow[y] = byRow[0])
                 => /\ 4 * call.ret.transitionPoint = 3 * canvasHeight
                    /\ 4 * call.ret.beerLevel.num = call.ret.beerLevel.den
                    /\ call.score = 0
            ELSE FALSE

\* every row of the band is dark on its even columns and light on its odd ones
C23_Witness ==
    /\ call.fn = "analyzeBeerLevelDarkness"
    /\ call.imageData = Uniform(Black, Gray200)
    /\ darkPixelsByRow(call.imageData, canvasWidth, canvasHeight)[100] = 4
    /\ call.ret.transitionPoint = 360
    /\ call.score = 0

\* C24: for every geometry with glassTop < liquidLevel <= glassBottom the two
\* percentage labels drawn by drawPercentageOverlay sum to exactly 100.
C24_LabelsSumTo100 ==
    /\ resultDisplay = "block"
    /\ lastAnalysis.glassTop < lastAnalysis.liquidLevel
    /\ lastAnalysis.liquidLevel <= lastAnalysis.glassBottom
    /\ overlay.labels # <<>>
    => overlay.labels[1] + overlay.labels[2] = 100

\* C25: the displayed score is one of 0, 10, ..., 100; the feedback is the top
\* band (score >= 95) exactly when the liquid line is on the rounded target
\* row, and whenever a directional hint is shown the liquid line is off it.
C25_ScoreStepsOfTen ==
    resultDisplay = "block" =>
        /\ scoreText[2] = 0
        /\ scoreText[1] \in {10 * k : k \in 0..10}
        /\ (feedbackText[1] = "Perfect") <=> (lastAnalysis.liquidLevel = overlay.targetLine)
        /\ (scoreText[1] >= 95) <=> (lastAnalysis.liquidLevel = overlay.targetLine)
        /\ feedbackText[2] # "none" => lastAnalysis.liquidLevel # overlay.targetLine

\* a liquid line one row under the target row: score 90 and the hint "lower"
C25_Witness ==
    /\ resultDisplay = "block"
    /\ overlay.targetLine = 173
    /\ lastAnalysis.liquidLevel = 174
    /\ scoreText = <<90, 0>>
    /\ feedbackText = <<"Almost there", "lower">>

\* C26: from the first capture click on, exactly one of the video and the
\* canvas is displayed, and whenever the result panel is displayed the canvas
\* is displayed and the capture button is hidden.
C26_OneViewAtATime ==
    canvasFrame # Blank =>
        /\ (videoDisplay = "block") # (canvasDisplay = "block")
        /\ videoDisplay \in {"block", "none"}
        /\ canvasDisplay \in {"block", "none"}
        /\ resultDisplay = "block" =>
              canvasDisplay = "block" /\ captureBtnDisplay = "none"

\* back in the camera view after a shown result: the try-again button was
\* clicked after a successful capture
C26_Witness ==
    /\ canvasFrame # Blank
    /\ lastAnalysis # Undefined
    /\ resultDisplay = "none"
    /\ videoDisplay = "block"
    /\ canvasDisplay = "none"
    /\ captureBtnDisplay = "block"
    /\ alert = "none"

\* C27: when a step of processImage throws, the page is back in the camera
\* view (canvas hidden, video shown, capture button shown), the result panel
\* is not shown by that run, and window.lastAnalysis is what it was before
\* the failed capture.
C27_FailedCaptureLeavesNoTrace ==
    [][alert' = "processing" =>
          /\ canvasDisplay' = "none"
          /\ videoDisplay' = "block"
          /\ captureBtnDisplay' = "block"
          /\ resultDisplay' = "none"
          /\ lastAnalysis' = lastAnalysis]_vars

\* C28: initCamera requests any camera only when the back-camera request has
\* failed, and at most once; the capture button is visible only after one of
\* the two requests has succeeded and the metadata has loaded, and it becomes
\* visible when video.play() settles, resolved or rejected; the camera alert
\* is raised only when both requests have failed, and then the capture button
\* is never shown.
C28_InitCameraOrder ==
    /\ [][pc' = "anyCamera" /\ pc # "anyCamera" => pc = "backCamera" /\ stream = "null"]_vars
    /\ [][pc # "backCamera" => pc' # "backCamera"]_vars
    /\ [][pc \notin {"backCamera", "anyCamera"} => pc' # "anyCamera"]_vars
    /\ [][pc' = "play" /\ pc # "play" => pc = "metadata" /\ stream = "live"]_vars
    /\ [][pc' = "ready" /\ pc # "ready" => pc = "play"]_vars
    /\ [][pc = "play" /\ pc' # "play" => pc' = "ready" /\ captureBtnDisplay' = "block"]_vars
    /\ [](captureBtnDisplay = "block" => pc = "ready" /\ stream = "live")
    /\ [][alert' = "camera" /\ alert # "camera" => pc = "anyCamera" /\ pc' = "failed"]_vars
    /\ [](alert = "camera" => pc = "failed" /\ stream = "null")
    /\ [](pc = "failed" => captureBtnDisplay = "none")
    /\ [][pc = "failed" => pc' = "failed"]_vars

\* the camera is running and the capture button is visible, before any capture
C28_Witness ==
    /\ pc = "ready"
    /\ stream = "live"
    /\ captureBtnDisplay = "block"
    /\ canvasFrame = Blank
    /\ alert = "none"

\* C29: in the sliding-window revision liquidLevel is the first row y of
\* [glassTop + 5, glassBottom - 5) with the largest |mean of
\* liquidTransitionByRow over the 5 rows above y - mean over the 5 rows from
\* y|, and glassBottom when that value is 0 on every row of the range; in all
\* cases glassTop < liquidLevel <= glassBottom.
C29_SlidingLiquidLevel ==
    call.fn = "analyzeBeerLevelSliding" =>
        LET byRow == liquidTransitionSliding(call.imageData, canvasWidth, canvasHeight)
            rows  == {y \in 0..(canvasHeight - 1) :
                         /\ call.ret.glassTop + 5 <= y
                         /\ y < call.ret.glassBottom - 5}
            diffs == [y \in rows |->
                         Abs(sliceSum(byRow, y - 5, y) - sliceSum(byRow, y, y + 5))]
        IN  IF byRow = byRow /\ diffs = diffs
            THEN /\ rows # {}
                 /\ IF \A y \in rows : diffs[y] = 0
                    THEN call.ret.liquidLevel = call.ret.glassBottom
                    ELSE /\ call.ret.liquidLevel \in rows
                         /\ \A y \in rows : diffs[y] <= diffs[call.ret.liquidLevel]
                         /\ \A y \in rows : diffs[y] = diffs[call.ret.liquidLevel]
                                               => call.ret.liquidLevel <= y
                 /\ call.ret.glassTop < call.ret.liquidLevel
                 /\ call.ret.liquidLevel <= call.ret.glassBottom
            ELSE FALSE

\* a dark band with two boundaries: the windows at rows 154 and 246 differ by
\* the same amount, and the liquid level is the first of them
C29_Witness ==
    /\ call.fn = "analyzeBeerLevelSliding"
    /\ call.imageData = Banded(150, 250)
    /\ call.ret.glassTop = 149
    /\ call.ret.liquidLevel = 154
    /\ LET byRow == liquidTransitionSliding(call.imageData, canvasWidth, canvasHeight)
       IN  /\ windowTransition(byRow, windowSize, 154) > 0
           /\ windowTransition(byRow, windowSize, 246) = windowTransition(byRow, windowSize, 154)

====
